---- MODULE Spec2Model ----
(***************************************************************************)
(* Model of backend/data_processing.py: load_data, the indicator functions *)
(* calculate_rsi, calculate_macd, calculate_stochastic_oscillator, and     *)
(* preprocess_data, which runs them per ticker over a pandas DataFrame.    *)
(*                                                                         *)
(* A float64 is modelled as an exact rational with the IEEE-754 special    *)
(* values the code can produce (signed zero, +inf, -inf, NaN).  pandas     *)
(* uses NaN as its "undefined" marker, so kind "nan" is both.  Rounding    *)
(* error of float64 is not modelled.                                       *)
(***************************************************************************)
EXTENDS Integers, Sequences, FiniteSets, TLC

VARIABLES
  files,          \* the CSV files of data_dir, in os.listdir order
  sameValueMean,  \* whether pandas' rolling mean returns the window's common value
                  \* as is (so -0.0 for a window of -0.0), or the running sum / n
  pc,             \* position in the __main__ block / preprocess_data
  combined,       \* raw_data: the frame load_data returned
  df,             \* preprocess_data's local df
  err,            \* the exception being raised, or NoError
  out,            \* processed_data as saved, or NoFrame
  arg,            \* argument of a direct call of an indicator function
  ret             \* its return value

vars == <<files, sameValueMean, pc, combined, df, err, out, arg, ret>>

(***************************************************************************)
(* float64 values                                                          *)
(***************************************************************************)
Abs(x) == IF x < 0 THEN -x ELSE x

RECURSIVE GCD(_, _)
GCD(a, b) == IF b = 0 THEN a ELSE GCD(b, a % b)

NaN == [k |-> "nan", n |-> 0, d |-> 1]

PInf == [k |-> "pinf", n |-> 0, d |-> 1]

NInf == [k |-> "ninf", n |-> 0, d |-> 1]

NZero == [k |-> "nzero", n |-> 0, d |-> 1]

\* the finite value n/d in lowest terms, d > 0
Num(n, d) ==
  LET g == GCD(Abs(n), Abs(d))
      s == IF d < 0 THEN -1 ELSE 1
  IN  [k |-> "num", n |-> s * (n \div g), d |-> s * (d \div g)]

Flt(i) == [k |-> "num", n |-> i, d |-> 1]

IsNaN(x) == x.k = "nan"

IsInf(x) == x.k \in {"pinf", "ninf"}

IsFinite(x) == x.k \in {"num", "nzero"}

IsZero(x) == IsFinite(x) /\ x.n = 0

\* the sign bit: TRUE for negative values, -0.0 and -inf
SignBit(x) == x.k \in {"nzero", "ninf"} \/ (x.k = "num" /\ x.n < 0)

SignedZero(neg) == IF neg THEN NZero ELSE Flt(0)

SignedInf(neg) == IF neg THEN NInf ELSE PInf

\* unary minus
Neg(x) ==
  CASE x.k = "nan" -> NaN
    [] x.k = "pinf" -> NInf
    [] x.k = "ninf" -> PInf
    [] x.k = "nzero" -> Flt(0)
    [] OTHER -> IF x.n = 0 THEN NZero ELSE [x EXCEPT !.n = -x.n]

\* x + y
Add(x, y) ==
  CASE IsNaN(x) \/ IsNaN(y) -> NaN
    [] IsInf(x) /\ IsInf(y) -> IF x.k = y.k THEN x ELSE NaN
    [] IsInf(x) -> x
    [] IsInf(y) -> y
    [] IsZero(x) /\ IsZero(y) -> SignedZero(SignBit(x) /\ SignBit(y))
    [] OTHER ->
         LET g == GCD(x.d, y.d)
         IN  Num(x.n * (y.d \div g) + y.n * (x.d \div g), (x.d \div g) * y.d)

\* x - y
Sub(x, y) == Add(x, Neg(y))

\* x * y
Mul(x, y) ==
  LET neg == SignBit(x) # SignBit(y)
  IN  CASE IsNaN(x) \/ IsNaN(y) -> NaN
        [] (IsInf(x) /\ IsZero(y)) \/ (IsZero(x) /\ IsInf(y)) -> NaN
        [] IsInf(x) \/ IsInf(y) -> SignedInf(neg)
        [] IsZero(x) \/ IsZero(y) -> SignedZero(neg)
        [] OTHER ->
             LET g1 == GCD(Abs(x.n), y.d)
                 g2 == GCD(Abs(y.n), x.d)
             IN  Num((x.n \div g1) * (y.n \div g2), (x.d \div g2) * (y.d \div g1))

\* x / y: a zero divisor gives an infinity, or NaN for 0/0, never an exception
Div(x, y) ==
  LET neg == SignBit(x) # SignBit(y)
  IN  CASE IsNaN(x) \/ IsNaN(y) -> NaN
        [] IsInf(x) /\ IsInf(y) -> NaN
        [] IsZero(x) /\ IsZero(y) -> NaN
        [] IsInf(x) -> SignedInf(neg)
        [] IsInf(y) -> SignedZero(neg)
        [] IsZero(y) -> SignedInf(neg)
        [] IsZero(x) -> SignedZero(neg)
        [] OTHER ->
             LET g1 == GCD(Abs(x.n), Abs(y.n))
                 g2 == GCD(x.d, y.d)
                 s == IF y.n < 0 THEN -1 ELSE 1
             IN  Num(s * (x.n \div g1) * (y.d \div g2), (x.d \div g2) * (Abs(y.n) \div g1))

\* x < y; every comparison with NaN is false
Less(x, y) ==
  CASE IsNaN(x) \/ IsNaN(y) -> FALSE
    [] x.k = "pinf" \/ y.k = "ninf" -> FALSE
    [] x.k = "ninf" \/ y.k = "pinf" -> TRUE
    [] OTHER -> x.n * y.d < y.n * x.d

\* x == y as floats: NaN differs from itself, -0.0 equals 0.0
FloatEq(x, y) == ~IsNaN(x) /\ ~IsNaN(y) /\ ~Less(x, y) /\ ~Less(y, x)

Leq(x, y) == Less(x, y) \/ FloatEq(x, y)

(***************************************************************************)
(* pandas Series operations, on the sequence of a Series' values           *)
(***************************************************************************)
\* Series.diff(): the first element has no predecessor
SeriesDiff(s) == [i \in 1..Len(s) |-> IF i = 1 THEN NaN ELSE Sub(s[i], s[i - 1])]

\* delta.where(delta > 0, 0): NaN > 0 is false, so NaN becomes 0 as well
WhereGain(delta) ==
  [i \in 1..Len(delta) |-> IF Less(Flt(0), delta[i]) THEN delta[i] ELSE Flt(0)]

\* delta.where(delta < 0, 0)
WhereLoss(delta) ==
  [i \in 1..Len(delta) |-> IF Less(delta[i], Flt(0)) THEN delta[i] ELSE Flt(0)]

SeriesNeg(s) == [i \in 1..Len(s) |-> Neg(s[i])]

\* rolling() hands infinities to its kernels as NaN
PrepValue(x) == IF IsInf(x) THEN NaN ELSE x

RECURSIVE WindowSum(_, _, _)
WindowSum(s, lo, hi) ==
  IF lo > hi THEN Flt(0) ELSE Add(WindowSum(s, lo, hi - 1), s[hi])

WindowHasNaN(s, lo, hi) == \E j \in lo..hi : IsNaN(PrepValue(s[j]))

\* rolling(window).mean(), min_periods = window
RollingMean(s, window) ==
  [i \in 1..Len(s) |->
     LET lo == i - window + 1
     IN  IF lo < 1 \/ WindowHasNaN(s, lo, i) THEN NaN
         ELSE IF sameValueMean /\ \A j \in lo..i : FloatEq(s[j], s[i]) THEN s[i]
         ELSE Div(WindowSum(s, lo, i), Flt(window))]

\* rolling(window).min()
RollingMin(s, window) ==
  [i \in 1..Len(s) |->
     LET lo == i - window + 1
     IN  IF lo < 1 \/ WindowHasNaN(s, lo, i) THEN NaN
         ELSE s[CHOOSE j \in lo..i : \A m \in lo..i : Leq(s[j], s[m])]]

\* rolling(window).max()
RollingMax(s, window) ==
  [i \in 1..Len(s) |->
     LET lo == i - window + 1
     IN  IF lo < 1 \/ WindowHasNaN(s, lo, i) THEN NaN
         ELSE s[CHOOSE j \in lo..i : \A m \in lo..i : Leq(s[m], s[j])]]

RECURSIVE WindowSqDev(_, _, _, _)
WindowSqDev(s, mean, lo, hi) ==
  IF lo > hi THEN Flt(0)
  ELSE Add(WindowSqDev(s, mean, lo, hi - 1),
           Mul(Sub(s[hi], mean), Sub(s[hi], mean)))

\* The square of rolling(window).std() (ddof = 1).  The standard deviation
\* itself is irrational in general; it is carried as its square.
RollingVar(s, window) ==
  [i \in 1..Len(s) |->
     LET lo == i - window + 1
         mean == Div(WindowSum(s, lo, i), Flt(window))
     IN  IF lo < 1 \/ WindowHasNaN(s, lo, i) \/ window < 2 THEN NaN
         ELSE Div(WindowSqDev(s, mean, lo, i), Flt(window - 1))]

RECURSIVE EwmAcc(_, _, _)
EwmAcc(s, alpha, acc) ==
  LET i == Len(acc) + 1
  IN  IF i > Len(s) THEN acc
      ELSE EwmAcc(s, alpha,
                  Append(acc, IF i = 1 THEN s[1]
                              ELSE Add(Mul(Sub(Flt(1), alpha), acc[i - 1]),
                                       Mul(alpha, s[i]))))

\* ewm(span=span, adjust=False).mean(): y[0] = x[0],
\* y[i] = (1 - alpha) * y[i-1] + alpha * x[i], alpha = 2 / (span + 1)
EwmMean(s, span) == EwmAcc(s, Div(Flt(2), Flt(span + 1)), <<>>)

\* Series.pct_change(): x[i] / x[i-1] - 1
PctChange(s) ==
  [i \in 1..Len(s) |-> IF i = 1 THEN NaN ELSE Sub(Div(s[i], s[i - 1]), Flt(1))]

SeriesSub(a, b) == [i \in 1..Len(a) |-> Sub(a[i], b[i])]

(***************************************************************************)
(* The indicator functions                                                 *)
(***************************************************************************)
\* calculate_rsi with the ratio upside down: rs = loss / gain
calculate_rsi_Inverted(close, window) ==
  LET delta == SeriesDiff(close)
      gain == RollingMean(WhereGain(delta), window)
      loss == RollingMean(SeriesNeg(WhereLoss(delta)), window)
  IN  [i \in 1..Len(close) |->
         LET rs == Div(loss[i], gain[i])
         IN  Sub(Flt(100), Div(Flt(100), Add(Flt(1), rs)))]

calculate_rsi(close, window) ==
  LET delta == SeriesDiff(close)
      gain == RollingMean(WhereGain(delta), window)
      loss == RollingMean(SeriesNeg(WhereLoss(delta)), window)
  IN  [i \in 1..Len(close) |->
         LET rs == Div(gain[i], loss[i])
         IN  Sub(Flt(100), Div(Flt(100), Add(Flt(1), rs)))]

\* returns the tuple (macd, signal_line)
calculate_macd(close, span_short, span_long, signal) ==
  LET ema_short == EwmMean(close, span_short)
      ema_long == EwmMean(close, span_long)
      macd == SeriesSub(ema_short, ema_long)
      signal_line == EwmMean(macd, signal)
  IN  <<macd, signal_line>>

\* returns the tuple (k_percent, d_percent); high, low, close are the columns
\* of the frame passed in
calculate_stochastic_oscillator(high, low, close, k_period, d_period) ==
  LET low_min == RollingMin(low, k_period)
      high_max == RollingMax(high, k_period)
      k_percent == [i \in 1..Len(close) |->
                      Div(Mul(Flt(100), Sub(close[i], low_min[i])),
                          Sub(high_max[i], low_min[i]))]
      d_percent == RollingMean(k_percent, d_period)
  IN  <<k_percent, d_percent>>

(***************************************************************************)
(* DataFrames.  A frame is the sequence of its rows in their current       *)
(* order; a row maps each column name to its value and "index" to the     *)
(* row's index label.  <<>> stands for "no frame": load_data never         *)
(* returns an empty one.                                                   *)
(***************************************************************************)
NoFrame == <<>>

NoError == [type |-> "none", line |-> 0]

Raised(type, line) == [type |-> type, line |-> line]

\* the ticker symbols of the model, in the order string comparison gives them
Symbols == <<"AAA", "BBB">>

TickerRank(t) == CHOOSE i \in 1..Len(Symbols) : Symbols[i] = t

Columns(frame) == IF frame = <<>> THEN {} ELSE DOMAIN frame[1] \ {"index"}

ColumnOf(frame, col) == [i \in 1..Len(frame) |-> frame[i][col]]

\* frame[name] = series, a Series with its own index: values go to the rows
\* with the same index label
RECURSIVE SeriesLookup(_, _, _)
SeriesLookup(seriesSeq, g, label) ==
  IF g > Len(seriesSeq) THEN NaN
  ELSE IF \E i \in 1..Len(seriesSeq[g].index) : seriesSeq[g].index[i] = label
       THEN seriesSeq[g].values[CHOOSE i \in 1..Len(seriesSeq[g].index) :
                                  seriesSeq[g].index[i] = label]
       ELSE SeriesLookup(seriesSeq, g + 1, label)

SetColumnAligned(frame, name, seriesSeq) ==
  [p \in 1..Len(frame) |->
     (name :> SeriesLookup(seriesSeq, 1, frame[p]["index"])) @@ frame[p]]

\* frame[name] = values, a tuple or list: values go to the rows by position
SetColumnPositional(frame, name, values) ==
  [p \in 1..Len(frame) |-> (name :> values[p]) @@ frame[p]]

DropColumn(frame, name) ==
  [p \in 1..Len(frame) |-> [c \in DOMAIN frame[p] \ {name} |-> frame[p][c]]]

\* groupby('Ticker'): the group keys, sorted
GroupKeys(frame) ==
  SelectSeq(Symbols, LAMBDA t : \E p \in 1..Len(frame) : frame[p]["Ticker"] = t)

\* the rows of one group, in the frame's order
GroupRows(frame, t) == SelectSeq(frame, LAMBDA r : r["Ticker"] = t)

(***************************************************************************)
(* load_data                                                               *)
(***************************************************************************)
required_columns == {"Ticker", "DTYYYYMMDD", "Open", "High", "Low", "Close", "Volume"}

\* the files load_data keeps: the others are logged and skipped
FileLoads(file) == required_columns \subseteq file.columns /\ file.rows # <<>>

RECURSIVE ConcatFrames(_)
ConcatFrames(fs) ==
  IF fs = <<>> THEN <<>> ELSE fs[1].rows \o ConcatFrames(Tail(fs))

\* pd.concat(data_frames, ignore_index=True): labels 0..n-1
IgnoreIndex(rows) == [p \in 1..Len(rows) |-> ("index" :> (p - 1)) @@ rows[p]]

load_data(fs) ==
  LET data_frames == SelectSeq(fs, FileLoads)
  IN  IF data_frames = <<>>
      THEN [err |-> Raised("ValueError", 40), df |-> NoFrame]
      ELSE [err |-> NoError, df |-> IgnoreIndex(ConcatFrames(data_frames))]

(***************************************************************************)
(* preprocess_data, statement by statement.  Each step gives the           *)
(* exception it raises, or the frame it leaves in df.                      *)
(***************************************************************************)
IsLeap(y) == (y % 4 = 0 /\ y % 100 # 0) \/ y % 400 = 0

DaysInMonth(y, m) ==
  IF m = 2 THEN (IF IsLeap(y) THEN 29 ELSE 28)
  ELSE IF m \in {4, 6, 9, 11} THEN 30 ELSE 31

\* pd.to_datetime(v, format='%Y%m%d') of one value: <<year, month, day>>, or
\* <<>> where strptime rejects the digits
ParseDate(v) ==
  LET y == v \div 10000
      m == (v \div 100) % 100
      d == v % 100
  IN  IF v >= 10000101 /\ v <= 99991231 /\ m \in 1..12 /\ d >= 1 /\ d <= DaysInMonth(y, m)
      THEN <<y, m, d>>
      ELSE <<>>

DateLess(a, b) ==
  \/ a[1] < b[1]
  \/ a[1] = b[1] /\ a[2] < b[2]
  \/ a[1] = b[1] /\ a[2] = b[2] /\ a[3] < b[3]

\* line 108: df['Date'] = pd.to_datetime(df['DTYYYYMMDD'], format='%Y%m%d')
ToDatetime(frame) ==
  IF \E p \in 1..Len(frame) : ParseDate(frame[p]["DTYYYYMMDD"]) = <<>>
  THEN [err |-> Raised("ValueError", 108), df |-> frame]
  ELSE [err |-> NoError,
        df |-> [p \in 1..Len(frame) |->
                  ("Date" :> ParseDate(frame[p]["DTYYYYMMDD"])) @@ frame[p]]]

KeyLess(r, q) ==
  \/ TickerRank(r["Ticker"]) < TickerRank(q["Ticker"])
  \/ r["Ticker"] = q["Ticker"] /\ DateLess(r["Date"], q["Date"])

\* line 113: df.sort_values(by=['Ticker', 'Date']); rows keep their index labels
sort_values(frame) ==
  LET n == Len(frame)
      before(p) == {q \in 1..n : \/ KeyLess(frame[q], frame[p])
                                 \/ ~KeyLess(frame[p], frame[q]) /\ q < p}
  IN  [p \in 1..n |-> frame[CHOOSE q \in 1..n : Cardinality(before(q)) = p - 1]]

CloseOf(rows) == ColumnOf(rows, "Close")

SMA_WINDOW == 10

EMA_SPAN == 10

BB_WINDOW == 10

RSI_WINDOW == 14

SPAN_SHORT == 12

SPAN_LONG == 26

SIGNAL_SPAN == 9

K_PERIOD == 14

D_PERIOD == 3

\* the frame's groups in key order, each the rows of one Ticker
Groups(frame) ==
  LET keys == GroupKeys(frame)
  IN  [g \in 1..Len(keys) |-> GroupRows(frame, keys[g])]

\* the Series a group function returns: the group's index labels, its values
GroupSeries(rows, values) == [index |-> ColumnOf(rows, "index"), values |-> values]

Ok(frame) == [err |-> NoError, df |-> frame]

\* line 117 without the groupby: one rolling mean down the whole Close column
AddSMA_Ungrouped(frame) ==
  Ok(SetColumnPositional(frame, "SMA_10", RollingMean(CloseOf(frame), SMA_WINDOW)))

\* line 117
AddSMA(frame) ==
  LET groups == Groups(frame)
      applied == [g \in 1..Len(groups) |->
                    GroupSeries(groups[g], RollingMean(CloseOf(groups[g]), SMA_WINDOW))]
  IN  Ok(SetColumnAligned(frame, "SMA_10", applied))

\* line 118 without the groupby: one recursion down the whole Close column
AddEMA_Ungrouped(frame) ==
  Ok(SetColumnPositional(frame, "EMA_10", EwmMean(CloseOf(frame), EMA_SPAN)))

\* line 118
AddEMA(frame) ==
  LET groups == Groups(frame)
      applied == [g \in 1..Len(groups) |->
                    GroupSeries(groups[g], EwmMean(CloseOf(groups[g]), EMA_SPAN))]
  IN  Ok(SetColumnAligned(frame, "EMA_10", applied))

\* mid + coef * std, with std carried as its square var
PlusStd(mid, coef, var) ==
  IF IsNaN(mid) \/ IsNaN(var) THEN NaN
  ELSE IF IsZero(var) THEN mid
  ELSE [k |-> "surd", mid |-> mid, coef |-> coef, var |-> var]

\* lines 121-123
AddBollinger(frame) ==
  LET groups == Groups(frame)
      std2 == [g \in 1..Len(groups) |->
                 GroupSeries(groups[g], RollingVar(CloseOf(groups[g]), BB_WINDOW))]
  IN  Ok([p \in 1..Len(frame) |->
            LET mid == frame[p]["SMA_10"]
                v == SeriesLookup(std2, 1, frame[p]["index"])
            IN  ("BB_Middle" :> mid) @@ ("BB_Upper" :> PlusStd(mid, 2, v))
                  @@ ("BB_Lower" :> PlusStd(mid, -2, v)) @@ frame[p]])

\* line 126
AddDailyReturn(frame) ==
  LET groups == Groups(frame)
      applied == [g \in 1..Len(groups) |->
                    GroupSeries(groups[g], PctChange(CloseOf(groups[g])))]
  IN  Ok(SetColumnAligned(frame, "Daily_Return", applied))

\* line 129
AddRSI(frame) ==
  LET groups == Groups(frame)
      applied == [g \in 1..Len(groups) |->
                    GroupSeries(groups[g], calculate_rsi(CloseOf(groups[g]), RSI_WINDOW))]
  IN  Ok(SetColumnAligned(frame, "RSI_14", applied))

\* a pandas Series object held in a cell
SeriesObject(index, values) == [k |-> "Series", index |-> index, values |-> values]

\* a, b = zip(*applied); frame[nameA] = a; frame[nameB] = b
\* applied is a Series with one tuple (Series, Series) per group.  zip(*...)
\* gives two tuples with one Series per group each; a tuple is assigned to a
\* column by position and must be as long as the frame.
UnzipAssign(frame, applied, nameA, nameB, line) ==
  IF Len(applied) = 0 THEN [err |-> Raised("ValueError", line), df |-> frame]
  ELSE IF Len(applied) # Len(frame) THEN [err |-> Raised("ValueError", line), df |-> frame]
  ELSE Ok(SetColumnPositional(
            SetColumnPositional(frame, nameA,
              [g \in 1..Len(applied) |->
                 SeriesObject(applied[g].index, applied[g].values[1])]),
            nameB,
            [g \in 1..Len(applied) |->
               SeriesObject(applied[g].index, applied[g].values[2])]))

\* line 132
AddMACD(frame) ==
  LET groups == Groups(frame)
      applied == [g \in 1..Len(groups) |->
                    GroupSeries(groups[g],
                      calculate_macd(CloseOf(groups[g]), SPAN_SHORT, SPAN_LONG, SIGNAL_SPAN))]
  IN  UnzipAssign(frame, applied, "MACD", "Signal_Line", 132)

\* line 135
AddStochastic(frame) ==
  LET groups == Groups(frame)
      applied == [g \in 1..Len(groups) |->
                    GroupSeries(groups[g],
                      calculate_stochastic_oscillator(
                        ColumnOf(groups[g], "High"), ColumnOf(groups[g], "Low"),
                        CloseOf(groups[g]), K_PERIOD, D_PERIOD))]
  IN  UnzipAssign(frame, applied, "%K", "%D", 135)

\* the statements of the try block, in order
Statements ==
  <<"convert", "drop", "sort", "sma", "ema", "bb", "ret", "rsi", "macd", "stoch">>

Statement(name, frame) ==
  CASE name = "convert" -> ToDatetime(frame)
    [] name = "drop" -> Ok(DropColumn(frame, "DTYYYYMMDD"))
    [] name = "sort" -> Ok(sort_values(frame))
    [] name = "sma" -> AddSMA(frame)
    [] name = "ema" -> AddEMA(frame)
    [] name = "bb" -> AddBollinger(frame)
    [] name = "ret" -> AddDailyReturn(frame)
    [] name = "rsi" -> AddRSI(frame)
    [] name = "macd" -> AddMACD(frame)
    [] name = "stoch" -> AddStochastic(frame)

RECURSIVE RunStatements(_, _)
RunStatements(r, names) ==
  IF names = <<>> \/ r.err # NoError THEN r
  ELSE RunStatements(Statement(Head(names), r.df), Tail(names))

\* preprocess_data as a function: the exception that leaves it, or the frame
\* it returns
preprocess_data(frame) ==
  LET r == RunStatements(Ok(frame), Statements)
  IN  IF r.err # NoError THEN [err |-> r.err, df |-> NoFrame] ELSE r

(***************************************************************************)
(* The inputs: one CSV file per ticker, as data_dir holds them              *)
(***************************************************************************)
MaxLen == 11

MaxLenB == 2

MaxPrice == 2

MaxVar == 1

MaxRsiLen == 16

MaxStep == 2

MaxStochLen == 15

InputRow(t, day, close) ==
  [Ticker |-> t, DTYYYYMMDD |-> day, Open |-> Flt(close), High |-> Flt(close + 1),
   Low |-> Flt(close - 1), Close |-> Flt(close), Volume |-> Flt(100)]

\* a ticker's rows on consecutive days: the close is base, and last on the
\* final MaxVar days
TickerRows(t, len, base, last) ==
  [i \in 1..len |-> InputRow(t, 20240100 + i, IF i > len - MaxVar THEN last ELSE base)]

Reverse(rows) == [i \in 1..Len(rows) |-> rows[Len(rows) + 1 - i]]

WithoutColumn(rows, name) == DropColumn(rows, name)

CsvFile(columns, rows) == [columns |-> columns, rows |-> rows]

Variants == {"asc", "desc", "nocolumn", "baddate"}

\* the files of one run
InputFiles(variant, rowsA, rowsB) ==
  CASE variant = "asc" ->
         <<CsvFile(required_columns, rowsA), CsvFile(required_columns, rowsB)>>
    [] variant = "desc" ->
         <<CsvFile(required_columns, Reverse(rowsB)),
           CsvFile(required_columns, Reverse(rowsA))>>
    [] variant = "nocolumn" ->
         <<CsvFile(required_columns, rowsA),
           CsvFile(required_columns \ {"Volume"}, WithoutColumn(rowsB, "Volume"))>>
    [] variant = "baddate" ->
         <<CsvFile(required_columns,
                   [i \in 1..Len(rowsA) |->
                      IF i = Len(rowsA) THEN [rowsA[i] EXCEPT !.DTYYYYMMDD = 20240230]
                      ELSE rowsA[i]]),
           CsvFile(required_columns, rowsB)>>

Init ==
  /\ \E variant \in Variants, lenA \in 0..MaxLen, lenB \in 0..MaxLenB,
        baseA \in 1..MaxPrice, lastA \in 1..MaxPrice, priceB \in 1..MaxPrice :
       /\ lenA <= MaxVar => baseA = lastA
       /\ lenA = 0 => baseA = 1
       /\ lenB = 0 => priceB = 1
       /\ files = InputFiles(variant, TickerRows("AAA", lenA, baseA, lastA),
                             TickerRows("BBB", lenB, priceB, priceB))
  /\ sameValueMean \in BOOLEAN
  /\ pc = "load"
  /\ combined = NoFrame
  /\ df = NoFrame
  /\ err = NoError
  /\ out = NoFrame
  /\ arg = <<>>
  /\ ret = <<>>

(***************************************************************************)
(* The __main__ block: load_data, preprocess_data, to_csv                  *)
(***************************************************************************)
\* line 150
LoadData ==
  /\ pc = "load"
  /\ LET r == load_data(files)
     IN  IF r.err # NoError
         THEN /\ err' = r.err
              /\ pc' = "main_except"
              /\ UNCHANGED combined
         ELSE /\ combined' = r.df
              /\ pc' = "convert"
              /\ UNCHANGED err
  /\ UNCHANGED <<files, sameValueMean, df, out, arg, ret>>

\* a statement of preprocess_data's try block
Advance(r, next) ==
  /\ IF r.err # NoError
     THEN /\ err' = r.err
          /\ pc' = "except"
          /\ UNCHANGED df
     ELSE /\ df' = r.df
          /\ pc' = next
          /\ UNCHANGED err
  /\ UNCHANGED <<files, sameValueMean, out, arg, ret>>

\* lines 108-109: the Date column is set on the caller's frame, the drop makes
\* the local one
ConvertDate ==
  /\ pc = "convert"
  /\ LET r == ToDatetime(combined)
     IN  /\ combined' = r.df
         /\ Advance(IF r.err # NoError THEN r ELSE Ok(DropColumn(r.df, "DTYYYYMMDD")), "sort")

SortByTickerDate ==
  /\ pc = "sort"
  /\ Advance(Ok(sort_values(df)), "sma")
  /\ UNCHANGED combined

ComputeSMA ==
  /\ pc = "sma"
  /\ Advance(AddSMA(df), "ema")
  /\ UNCHANGED combined

ComputeEMA ==
  /\ pc = "ema"
  /\ Advance(AddEMA(df), "bb")
  /\ UNCHANGED combined

ComputeBollinger ==
  /\ pc = "bb"
  /\ Advance(AddBollinger(df), "ret")
  /\ UNCHANGED combined

ComputeDailyReturn ==
  /\ pc = "ret"
  /\ Advance(AddDailyReturn(df), "rsi")
  /\ UNCHANGED combined

ComputeRSI ==
  /\ pc = "rsi"
  /\ Advance(AddRSI(df), "macd")
  /\ UNCHANGED combined

ComputeMACD ==
  /\ pc = "macd"
  /\ Advance(AddMACD(df), "stoch")
  /\ UNCHANGED combined

ComputeStochastic ==
  /\ pc = "stoch"
  /\ Advance(AddStochastic(df), "return")
  /\ UNCHANGED combined

\* lines 139-141: log and re-raise
PreprocessExcept ==
  /\ pc = "except"
  /\ pc' = "main_except"
  /\ UNCHANGED <<files, sameValueMean, combined, df, err, out, arg, ret>>

\* line 143, then lines 154-155: processed_data.to_csv(output_file)
ReturnAndSave ==
  /\ pc = "return"
  /\ out' = df
  /\ pc' = "saved"
  /\ UNCHANGED <<files, sameValueMean, combined, df, err, arg, ret>>

\* lines 158-160
MainExcept ==
  /\ pc = "main_except"
  /\ pc' = "failed"
  /\ UNCHANGED <<files, sameValueMean, combined, df, err, out, arg, ret>>

Next ==
  \/ LoadData
  \/ ConvertDate
  \/ SortByTickerDate
  \/ ComputeSMA
  \/ ComputeEMA
  \/ ComputeBollinger
  \/ ComputeDailyReturn
  \/ ComputeRSI
  \/ ComputeMACD
  \/ ComputeStochastic
  \/ PreprocessExcept
  \/ ReturnAndSave
  \/ MainExcept

Spec == Init /\ [][Next]_vars

(***************************************************************************)
(* calculate_rsi called on one close series                                *)
(***************************************************************************)
\* closes that start at 2, rise by up from day p on and fall by 1 from day q on
StepSeries(len, up, p, q) ==
  [i \in 1..len |->
     Flt(2 + (IF i >= p THEN up ELSE 0) - (IF i >= q THEN 1 ELSE 0))]

InitRSI ==
  /\ \E len \in 1..MaxRsiLen, up \in 0..MaxStep :
       \E p \in 2..(len + 1), q \in 2..(len + 1) :
         /\ up = 0 => p = 2
         /\ arg = StepSeries(len, up, p, q)
  /\ sameValueMean \in BOOLEAN
  /\ pc = "call_rsi"
  /\ files = <<>>
  /\ combined = NoFrame
  /\ df = NoFrame
  /\ err = NoError
  /\ out = NoFrame
  /\ ret = <<>>

CallRsi ==
  /\ pc = "call_rsi"
  /\ ret' = calculate_rsi(arg, RSI_WINDOW)
  /\ pc' = "rsi_returned"
  /\ UNCHANGED <<files, sameValueMean, combined, df, err, out, arg>>

NextRSI == CallRsi

SpecRSI == InitRSI /\ [][NextRSI]_vars

(***************************************************************************)
(* calculate_stochastic_oscillator called on one group                     *)
(***************************************************************************)
\* a group with constant High and Low, except a lower Low on the first day;
\* the close is c0 up to day p and c1 after it
StochRows(len, low, high, dip, c0, c1, p) ==
  [i \in 1..len |->
     [High |-> Flt(high), Low |-> Flt(IF i = 1 THEN low - dip ELSE low),
      Close |-> Flt(IF i <= p THEN c0 ELSE c1)]]

InitStoch ==
  /\ \E len \in 1..MaxStochLen, low \in 1..MaxPrice, high \in 1..MaxPrice,
        dip \in 0..1, c0 \in 1..(MaxPrice + 1), c1 \in 1..(MaxPrice + 1) :
       \E p \in 1..len :
         /\ low <= high
         /\ c0 = c1 => p = len
         /\ arg = StochRows(len, low, high, dip, c0, c1, p)
  /\ sameValueMean \in BOOLEAN
  /\ pc = "call_stoch"
  /\ files = <<>>
  /\ combined = NoFrame
  /\ df = NoFrame
  /\ err = NoError
  /\ out = NoFrame
  /\ ret = <<>>

CallStochastic ==
  /\ pc = "call_stoch"
  /\ ret' = calculate_stochastic_oscillator(ColumnOf(arg, "High"), ColumnOf(arg, "Low"),
                                            ColumnOf(arg, "Close"), K_PERIOD, D_PERIOD)
  /\ pc' = "stoch_returned"
  /\ UNCHANGED <<files, sameValueMean, combined, df, err, out, arg>>

NextStoch == CallStochastic

SpecStoch == InitStoch /\ [][NextStoch]_vars

(***************************************************************************)
(* Reference values, computed from the input rows by their key             *)
(* (Ticker, day) without the frame operations above                        *)
(***************************************************************************)
RefMax(a, b) == IF a > b THEN a ELSE b

\* the YYYYMMDD number of a parsed date
RefDay(date) == date[1] * 10000 + date[2] * 100 + date[3]

\* the input rows of ticker t, earliest day first
RefGroup(t) ==
  LET S == {q \in 1..Len(combined) : combined[q]["Ticker"] = t}
      earlier(q) == {x \in S : combined[x]["DTYYYYMMDD"] < combined[q]["DTYYYYMMDD"]}
  IN  [i \in 1..Cardinality(S) |->
         combined[CHOOSE q \in S : Cardinality(earlier(q)) = i - 1]]

\* the position in its group of a row of a processed frame
RefIndex(r) ==
  Cardinality({q \in 1..Len(combined) :
                 /\ combined[q]["Ticker"] = r["Ticker"]
                 /\ combined[q]["DTYYYYMMDD"] <= RefDay(r["Date"])})

RECURSIVE RefCloseSum(_, _, _)
RefCloseSum(g, lo, hi) ==
  IF lo > hi THEN 0 ELSE g[hi]["Close"].n + RefCloseSum(g, lo, hi - 1)

RECURSIVE RefGainSum(_, _, _)
RefGainSum(s, lo, hi) ==
  IF lo > hi THEN 0
  ELSE RefMax(s[hi].n - s[hi - 1].n, 0) + RefGainSum(s, lo, hi - 1)

RECURSIVE RefLossSum(_, _, _)
RefLossSum(s, lo, hi) ==
  IF lo > hi THEN 0
  ELSE RefMax(s[hi - 1].n - s[hi].n, 0) + RefLossSum(s, lo, hi - 1)

RefTickers == {combined[q]["Ticker"] : q \in 1..Len(combined)}

\* the run is over
Terminal == pc \in {"saved", "failed"}

\* load_data returned a panel and all its dates parse
PanelOk ==
  /\ combined # NoFrame
  /\ \A q \in 1..Len(combined) : ParseDate(combined[q]["DTYYYYMMDD"]) # <<>>

FeatureColumns ==
  {"SMA_10", "EMA_10", "BB_Middle", "BB_Upper", "BB_Lower", "Daily_Return",
   "RSI_14", "MACD", "Signal_Line", "%K", "%D"}

(***************************************************************************)
(* C1 code_bug: for every panel, preprocess_data returns a table in which  *)
(* each row's MACD, Signal_Line, %K and %D are the values computed from    *)
(* that row's own ticker group at that row's own date.                     *)
(***************************************************************************)
C1_AlignedByKey ==
  (Terminal /\ PanelOk) =>
    /\ out # NoFrame
    /\ \A p \in 1..Len(out) :
         LET g == RefGroup(out[p]["Ticker"])
             i == RefIndex(out[p])
             macd == calculate_macd(CloseOf(g), 12, 26, 9)
             stoch == calculate_stochastic_oscillator(
                        ColumnOf(g, "High"), ColumnOf(g, "Low"), CloseOf(g), 14, 3)
         IN  /\ out[p]["MACD"] = macd[1][i]
             /\ out[p]["Signal_Line"] = macd[2][i]
             /\ out[p]["%K"] = stoch[1][i]
             /\ out[p]["%D"] = stoch[2][i]

(***************************************************************************)
(* C2 code_bug: for every panel satisfying the schema the returned table   *)
(* has exactly the input's (Ticker, Date) pairs and is ordered by Ticker,  *)
(* then Date.                                                              *)
(***************************************************************************)
C2_SameKeysSorted ==
  (Terminal /\ PanelOk) =>
    /\ out # NoFrame
    /\ Len(out) = Len(combined)
    /\ \A q \in 1..Len(combined) :
         \E p \in 1..Len(out) :
           /\ out[p]["Ticker"] = combined[q]["Ticker"]
           /\ RefDay(out[p]["Date"]) = combined[q]["DTYYYYMMDD"]
    /\ \A p \in 1..(Len(out) - 1) :
         \/ TickerRank(out[p]["Ticker"]) < TickerRank(out[p + 1]["Ticker"])
         \/ /\ out[p]["Ticker"] = out[p + 1]["Ticker"]
            /\ RefDay(out[p]["Date"]) < RefDay(out[p + 1]["Date"])

(***************************************************************************)
(* C3 code_bug: a fatal input defect (a required column absent, an empty   *)
(* panel, an unparsable date) aborts the computation before any per-group  *)
(* feature computation; no table is produced and no defective input is     *)
(* skipped.                                                                *)
(***************************************************************************)
Defective ==
  \/ \E f \in 1..Len(files) : ~(required_columns \subseteq files[f].columns)
  \/ \A f \in 1..Len(files) : files[f].rows = <<>>
  \/ \E f \in 1..Len(files) : \E p \in 1..Len(files[f].rows) :
       ParseDate(files[f].rows[p]["DTYYYYMMDD"]) = <<>>

C3_FatalDefectAborts ==
  Defective =>
    /\ Columns(df) \cap FeatureColumns = {}
    /\ out = NoFrame
    /\ pc # "saved"

(***************************************************************************)
(* C4 code_bug: calculate_rsi(series, window=14) yields no numeric value   *)
(* at any of the first 14 rows (indices 0..13).                            *)
(***************************************************************************)
C4_RsiUndefinedFirst14 ==
  pc = "rsi_returned" => \A i \in 1..Len(ret) : i <= 14 => IsNaN(ret[i])

C6_StochRange ==
  pc = "stoch_returned" =>
    \A i \in 14..Len(arg) :
      LET W == (i - 13)..i
          highMax == CHOOSE h \in {arg[j]["High"].n : j \in W} :
                       \A j \in W : arg[j]["High"].n <= h
          lowMin == CHOOSE l \in {arg[j]["Low"].n : j \in W} :
                      \A j \in W : l <= arg[j]["Low"].n
          k == ret[1][i]
      IN  /\ highMax # lowMin => k.k = "num" /\ Leq(Flt(0), k) /\ Leq(k, Flt(100))
          /\ highMax = lowMin => IsNaN(k)

(***************************************************************************)
(* C7 confirmed: in every ticker group SMA_10 is undefined at indices 0..8 *)
(* and from index 9 on is the mean of the group's Close[i-9..i]; a group   *)
(* shorter than 10 rows has no defined SMA_10 and line 117 raises nothing. *)
(***************************************************************************)
C7_Sma10 ==
  /\ "SMA_10" \in Columns(df) =>
       /\ Len(df) = Len(combined)
       /\ \A t \in RefTickers :
            LET g == RefGroup(t)
            IN  \A p \in 1..Len(df) :
                  df[p]["Ticker"] = t =>
                    LET i == RefIndex(df[p])
                    IN  IF i < 10 THEN IsNaN(df[p]["SMA_10"])
                        ELSE df[p]["SMA_10"] = Num(RefCloseSum(g, i - 9, i), 10)
  /\ pc = "ema" => err = NoError /\ "SMA_10" \in Columns(df)

\* a group of 10 rows or more with a defined mean that is not the row's own
\* close, beside a second group
C7_Witness ==
  /\ "SMA_10" \in Columns(df)
  /\ \E p \in 1..Len(df), q \in 1..Len(df) :
       /\ ~IsNaN(df[p]["SMA_10"])
       /\ df[p]["SMA_10"] # df[p]["Close"]
       /\ df[q]["Ticker"] # df[p]["Ticker"]
       /\ IsNaN(df[q]["SMA_10"])

(***************************************************************************)
(* C8 confirmed: EMA_10 is defined at every row; at a group's first row it *)
(* is that row's Close, and at every later row it is                       *)
(* (2/11) * Close + (9/11) * EMA_10 of the group's previous row; it never  *)
(* carries the previous ticker's value.                                    *)
(***************************************************************************)
C8_Ema10 ==
  "EMA_10" \in Columns(df) =>
    \A p \in 1..Len(df) :
      LET prevs == {q \in 1..Len(df) :
                      /\ df[q]["Ticker"] = df[p]["Ticker"]
                      /\ RefDay(df[q]["Date"]) < RefDay(df[p]["Date"])}
      IN  /\ df[p]["EMA_10"].k = "num"
          /\ Cardinality(prevs) = RefIndex(df[p]) - 1
          /\ IF prevs = {} THEN df[p]["EMA_10"] = df[p]["Close"]
             ELSE LET q == CHOOSE q \in prevs :
                             \A x \in prevs : RefDay(df[x]["Date"]) <= RefDay(df[q]["Date"])
                  IN  df[p]["EMA_10"] =
                        Add(Mul(Num(2, 11), df[p]["Close"]),
                            Mul(Num(9, 11), df[q]["EMA_10"]))

\* a group whose EMA_10 has moved off the close, followed by another group
C8_Witness ==
  /\ "EMA_10" \in Columns(df)
  /\ \E p \in 1..(Len(df) - 1) :
       /\ df[p]["Ticker"] # df[p + 1]["Ticker"]
       /\ df[p]["EMA_10"] # df[p]["Close"]
       /\ df[p]["EMA_10"] # df[p + 1]["Close"]

(***************************************************************************)
(* C9 code_bug: in the returned table MACD[i] is EMA(Close,12)[i] -        *)
(* EMA(Close,26)[i] and Signal_Line[i] is the span-9 EMA of MACD at i, for *)
(* every group and every row from the first, a number at every row.        *)
(***************************************************************************)
C9_MacdEveryRow ==
  (Terminal /\ PanelOk) =>
    /\ out # NoFrame
    /\ \A p \in 1..Len(out) :
         LET close == CloseOf(RefGroup(out[p]["Ticker"]))
             i == RefIndex(out[p])
             macd == SeriesSub(EwmMean(close, 12), EwmMean(close, 26))
         IN  /\ IsFinite(out[p]["MACD"])
             /\ IsFinite(out[p]["Signal_Line"])
             /\ out[p]["MACD"] = macd[i]
             /\ out[p]["Signal_Line"] = EwmMean(macd, 9)[i]

(***************************************************************************)
(* C10 code_bug: the feature values preprocess_data produces for the rows  *)
(* of a ticker are those it produces for a panel holding that ticker's     *)
(* rows alone, whatever other rows are present and in whatever order; and  *)
(* Daily_Return is undefined at the first row of each group.               *)
(***************************************************************************)
\* a cell's numbers: a Series held in a cell counts by its values
CellValue(v) == IF v.k = "Series" THEN v.values ELSE v

\* the feature values of ticker t's rows in a frame, in the frame's order
FeatureRows(frame, t) ==
  LET rows == GroupRows(frame, t)
  IN  [i \in 1..Len(rows) |-> [c \in FeatureColumns |-> CellValue(rows[i][c])]]

C10_GroupLocal ==
  (Terminal /\ PanelOk) =>
    \A t \in RefTickers :
      /\ FeatureRows(IF pc = "saved" THEN out ELSE NoFrame, t)
           = FeatureRows(preprocess_data(GroupRows(combined, t)).df, t)
      /\ pc = "saved" =>
           \A p \in 1..Len(out) :
             RefIndex(out[p]) = 1 => IsNaN(out[p]["Daily_Return"])

====
